---- MODULE Spec2Model ----
(***************************************************************************)
(* Model of cells.json: the recursive, policy-driven UniversalSerializer   *)
(* (serializer.py), the dumps / safe_json_dumps drivers around the         *)
(* standard json encoder, and the traversal context `_seen`.               *)
(*                                                                         *)
(* Python values are records [k, n, s, items]:                             *)
(*   k      runtime kind ("none", "int", "Decimal", ..., "ref", "map",     *)
(*          "list"); "ref" is a reference to an object of the input heap,  *)
(*          "map"/"list" are fresh dict/list objects built by the code     *)
(*   n      payload (number, or the heap address of a "ref")               *)
(*   s      the text of a str, as a sequence of tokens                     *)
(*   items  the entries of a fresh dict/list, records [key, val]           *)
(* The call stack of each caller is explicit, one frame per Python call.   *)
(***************************************************************************)
EXTENDS Integers, Sequences, FiniteSets, TLC

\* ------------------------------------------------------------------ bounds
\* Call-stack depth at which a further call raises RecursionError.
MaxDepth == 10

\* Callers (threads); SeqThreads are the callers of the sequential
\* specification, where one top-level call runs at a time.
Threads == {1, 2}
SeqThreads == {1}

\* ------------------------------------------------------------------ values
V(k, n) == [k |-> k, n |-> n, s |-> <<>>, items |-> <<>>]
Str(tokens) == [k |-> "str", n |-> 0, s |-> tokens, items |-> <<>>]
Ref(a) == V("ref", a)
None == V("none", 0)
Map(items) == [k |-> "map", n |-> 0, s |-> <<>>, items |-> items]
Lst(items) == [k |-> "list", n |-> 0, s |-> <<>>, items |-> items]
Item(key, val) == [key |-> key, val |-> val]
\* A declared slot whose attribute was never assigned (hasattr is False).
Unset == V("unset", 0)

\* ------------------------------------------------------------------ heap
\* An object of the input graph.  cls is type(obj).__name__; items are the
\* entries of a dict/list/tuple/set; todict is "no" (no callable to_dict),
\* "map" (to_dict() returns the dict td) or "raw" (to_dict() returns the
\* non-dict value raw); hasdict/attrs is __dict__; hasslots/slots is
\* __slots__.
HObj(cls, items, todict, td, raw, hasdict, attrs, hasslots, slots) ==
    [cls |-> cls, items |-> items, todict |-> todict, td |-> td, raw |-> raw,
     hasdict |-> hasdict, attrs |-> attrs, hasslots |-> hasslots,
     slots |-> slots]
Container(cls, items) ==
    HObj(cls, items, "no", <<>>, None, FALSE, <<>>, FALSE, <<>>)
Plain(cls, attrs) ==
    HObj(cls, <<>>, "no", <<>>, None, TRUE, attrs, FALSE, <<>>)
Bare(cls) ==
    HObj(cls, <<>>, "no", <<>>, None, FALSE, <<>>, FALSE, <<>>)
Slotted(cls, slots) ==
    HObj(cls, <<>>, "no", <<>>, None, FALSE, <<>>, TRUE, slots)
WithToDict(cls, td, attrs) ==
    HObj(cls, <<>>, "map", td, None, TRUE, attrs, FALSE, <<>>)
WithRawToDict(cls, raw, attrs) ==
    HObj(cls, <<>>, "raw", <<>>, raw, TRUE, attrs, FALSE, <<>>)

\* The values handed through unconverted: the value of an Enum member, what
\* a to_dict() returns that is not a dict, what the default= function
\* returns.  Their payloads tell them from the Decimals of the input.
EnumRawValue == V("Decimal", 7)
ToDictRawValue == V("Decimal", 8)
FallbackRawValue == V("Decimal", 9)

\* The objects the calls are made on.
Heap ==
    <<
    \* 1: a = {}; a["self"] = a
    Container("dict", <<Item("self", Ref(1))>>),
    \* 2, 3: two Node objects referring to each other
    Plain("Node", <<Item("child", Ref(3))>>),
    Plain("Node", <<Item("child", Ref(2))>>),
    \* 4: class CustomType: pass
    Plain("CustomType", <<>>),
    \* 5: object(): no to_dict, no __dict__, no __slots__
    Bare("object"),
    \* 6: User with to_dict() and __dict__
    WithToDict("User",
               <<Item("name", Str(<<"Alice">>)), Item("age", V("int", 25))>>,
               <<Item("name", Str(<<"Alice">>)), Item("age", V("int", 25)),
                 Item("hidden", V("Decimal", 2))>>),
    \* 7: {"obj": CustomType()}
    Container("dict", <<Item("obj", Ref(4))>>),
    \* 8: {"obj": object(), "c": 1}
    Container("dict", <<Item("obj", Ref(5)), Item("c", V("int", 1))>>),
    \* 9: [p, p] with the same Point p in two sibling slots
    Container("list", <<Item("", Ref(10)), Item("", Ref(10))>>),
    \* 10: Point(x=10, y=Decimal)
    Plain("Point", <<Item("x", V("int", 10)), Item("y", V("Decimal", 1))>>),
    \* 11: {1, p}
    Container("set", <<Item("", V("int", 1)), Item("", Ref(10))>>),
    \* 12: Money whose to_dict() returns a Decimal, not a dict
    WithRawToDict("Money", ToDictRawValue,
                  <<Item("amount", V("int", 5))>>),
    \* 13: class with __slots__ = ("a", "b"), only a assigned
    Slotted("Slotted", <<Item("a", V("int", 1)), Item("b", Unset)>>),
    \* 14: {"n": n} with n in a cycle of Node objects
    Container("dict", <<Item("n", Ref(2))>>),
    \* 15: Holder whose attribute is an object() and a str
    Plain("Holder", <<Item("inner", Ref(5)), Item("tag", Str(<<"t">>))>>),
    \* 16: mapping of domain values
    Container("dict", <<Item("t", V("datetime", 1)),
                        Item("e", V("Enum", 1)),
                        Item("dec", V("Decimal", 1))>>),
    \* 17: Node whose child is itself
    Plain("Node", <<Item("child", Ref(17))>>),
    \* 18: (1, user)
    Container("tuple", <<Item("", V("int", 1)), Item("", Ref(6))>>),
    \* 19: instance of a subclass (without __slots__) of a slotted class:
    \* it has a __dict__ and a __slots__
    HObj("Mixed", <<>>, "no", <<>>, None, TRUE,
         <<Item("d", V("int", 1))>>, TRUE, <<Item("s", V("int", 2))>>)
    >>

Addr == DOMAIN Heap

\* Leaf values passed to the calls.  Enum payload 0 is a member whose value
\* is an int (Color.BLUE = 3), payload 1 a member whose value is a Decimal;
\* the ndarray, the DataFrame and the named Series hold one int.
LeafRoots ==
    {None, V("bool", 1), V("int", 42), V("float", 3), Str(<<"hello">>),
     V("datetime", 1), V("date", 1), V("time", 1), V("timedelta", 5400),
     V("Decimal", 1), V("UUID", 1), V("Enum", 0), V("Enum", 1), V("Path", 1),
     V("ndarray", 4), V("DataFrame", 5), V("Series", 6)}

Roots == LeafRoots \cup {Ref(a) : a \in Addr}

\* The values safe_json_dumps is called on: the self-referential dict, the
\* dict holding a cycle of objects, and four values without a cycle.
SafeRoots == {Ref(1), Ref(14), Ref(7), Ref(8), Ref(9), V("Decimal", 1)}

\* ------------------------------------------------------------------ types
\* type(obj).__name__
TypeName(v) ==
    IF v.k = "ref" THEN Heap[v.n].cls
    ELSE IF v.k = "map" THEN "dict"
    ELSE IF v.k = "none" THEN "NoneType"
    ELSE v.k

\* The classes an instance of class c is an instance of (datetime is a
\* subclass of date, bool of int).
Mro(c) ==
    IF c = "datetime" THEN {"datetime", "date"}
    ELSE IF c = "bool" THEN {"bool", "int"}
    ELSE {c}

IsInstance(v, classes) == Mro(TypeName(v)) \cap classes # {}

\* Exceptions: [type, cls], cls being the type name of the object carried.
Exc(type, cls) == [type |-> type, cls |-> cls]
ExcMro(type) ==
    IF type = "CircularReferenceError"
    THEN {"CircularReferenceError", "JSONSerializationError", "TypeError"}
    ELSE IF type = "UnsupportedTypeError"
    THEN {"UnsupportedTypeError", "JSONSerializationError", "TypeError"}
    ELSE IF type = "JSONSerializationError"
    THEN {"JSONSerializationError", "TypeError"}
    ELSE IF type = "RecursionError"
    THEN {"RecursionError", "RuntimeError"}
    ELSE IF type = "JSONEncodeError"
    THEN {"JSONEncodeError", "TypeError"}
    ELSE {type}
IsA(e, classes) == ExcMro(e.type) \cap classes # {}

\* ------------------------------------------------------------------ leaf rules
isoformat(v) == [k |-> "str", n |-> v.n, s |-> <<"iso", TypeName(v)>>,
                 items |-> <<>>]
_serialize_datetime(v) == isoformat(v)
_serialize_date(v) == isoformat(v)
_serialize_time(v) == isoformat(v)
_serialize_timedelta(v) == V("float", v.n)
\* _serialize_decimal that hands the Decimal back.
_serialize_decimal_unconverted(v) == v
_serialize_decimal(v) == V("float", v.n)
_serialize_uuid(v) == [k |-> "str", n |-> v.n, s |-> <<"uuid">>,
                       items |-> <<>>]
_serialize_enum(v) ==
    IF v.n = 0 THEN V("int", 3) ELSE EnumRawValue
_serialize_path(v) == [k |-> "str", n |-> v.n, s |-> <<"posix">>,
                       items |-> <<>>]
\* ndarray.tolist(): a new list of Python numbers
_serialize_numpy(v) == Lst(<<Item("", V("int", v.n))>>)
\* DataFrame.to_dict("records"): one dict per row; a named Series:
\* {str(name): tolist()}
_serialize_pandas(v) ==
    IF TypeName(v) = "DataFrame"
    THEN Lst(<<Item("", Map(<<Item("A", V("int", v.n))>>))>>)
    ELSE Map(<<Item("s", Lst(<<Item("", V("int", v.n))>>))>>)

\* Rule with the date test ahead of the datetime test.
RuleDateFirst(v) ==
    IF v.k = "none" THEN "none"
    ELSE IF IsInstance(v, {"str", "int", "float", "bool"}) THEN "primitive"
    ELSE IF IsInstance(v, {"date"}) THEN "date"
    ELSE IF IsInstance(v, {"datetime"}) THEN "datetime"
    ELSE IF IsInstance(v, {"time"}) THEN "time"
    ELSE IF IsInstance(v, {"timedelta"}) THEN "timedelta"
    ELSE IF IsInstance(v, {"Decimal"}) THEN "Decimal"
    ELSE IF IsInstance(v, {"UUID"}) THEN "UUID"
    ELSE IF IsInstance(v, {"Enum"}) THEN "Enum"
    ELSE IF IsInstance(v, {"Path"}) THEN "Path"
    ELSE IF IsInstance(v, {"ndarray"}) THEN "numpy"
    ELSE IF IsInstance(v, {"DataFrame", "Series"}) THEN "pandas"
    ELSE IF IsInstance(v, {"dict"}) THEN "dict"
    ELSE IF IsInstance(v, {"list", "tuple"}) THEN "list"
    ELSE IF IsInstance(v, {"set"}) THEN "set"
    ELSE "object"

\* The rule _serialize applies to v: the first isinstance test that matches,
\* in source order.
Rule(v) ==
    IF v.k = "none" THEN "none"
    ELSE IF IsInstance(v, {"str", "int", "float", "bool"}) THEN "primitive"
    ELSE IF IsInstance(v, {"datetime"}) THEN "datetime"
    ELSE IF IsInstance(v, {"date"}) THEN "date"
    ELSE IF IsInstance(v, {"time"}) THEN "time"
    ELSE IF IsInstance(v, {"timedelta"}) THEN "timedelta"
    ELSE IF IsInstance(v, {"Decimal"}) THEN "Decimal"
    ELSE IF IsInstance(v, {"UUID"}) THEN "UUID"
    ELSE IF IsInstance(v, {"Enum"}) THEN "Enum"
    ELSE IF IsInstance(v, {"Path"}) THEN "Path"
    ELSE IF IsInstance(v, {"ndarray"}) THEN "numpy"
    ELSE IF IsInstance(v, {"DataFrame", "Series"}) THEN "pandas"
    ELSE IF IsInstance(v, {"dict"}) THEN "dict"
    ELSE IF IsInstance(v, {"list", "tuple"}) THEN "list"
    ELSE IF IsInstance(v, {"set"}) THEN "set"
    ELSE "object"

LeafRules == {"none", "primitive", "datetime", "date", "time", "timedelta",
              "Decimal", "UUID", "Enum", "Path", "numpy", "pandas"}

\* What _serialize returns for a value of a leaf rule.
LeafResult(v) ==
    LET r == Rule(v) IN
    IF r = "none" THEN None
    ELSE IF r = "primitive" THEN v
    ELSE IF r = "datetime" THEN _serialize_datetime(v)
    ELSE IF r = "date" THEN _serialize_date(v)
    ELSE IF r = "time" THEN _serialize_time(v)
    ELSE IF r = "timedelta" THEN _serialize_timedelta(v)
    ELSE IF r = "Decimal" THEN _serialize_decimal(v)
    ELSE IF r = "UUID" THEN _serialize_uuid(v)
    ELSE IF r = "Enum" THEN _serialize_enum(v)
    ELSE IF r = "Path" THEN _serialize_path(v)
    ELSE IF r = "numpy" THEN _serialize_numpy(v)
    ELSE _serialize_pandas(v)

\* The entries a dict/list/tuple/set is iterated over.
ItemsOf(v) == IF v.k = "ref" THEN Heap[v.n].items ELSE v.items

\* Sentinel that leaves the type name out.
SentinelWithoutType(v) == Str(<<"<", "CircularReference", ">">>)

\* The string returned for a cycle when fail_on_circular is off.
Sentinel(v) == Str(<<"<", "CircularReference", " ", TypeName(v), ">">>)

\* What the standard json encoder does with o: "primitive" (written as
\* is), "dict", "list" (list and tuple), or "default" (handed to default=).
EncoderRule(o) ==
    IF o.k = "none" \/ IsInstance(o, {"str", "int", "float", "bool"})
    THEN "primitive"
    ELSE IF IsInstance(o, {"list", "tuple"}) THEN "list"
    ELSE IF IsInstance(o, {"dict"}) THEN "dict"
    ELSE "default"

\* ------------------------------------------------------------------ policy
Fallbacks == {"none", "str", "raw", "raise"}
Policies ==
    [strict : BOOLEAN, ignore_unknown : BOOLEAN, fail_on_circular : BOOLEAN,
     default : Fallbacks]

\* The user's default= function: "str" returns a string, "raw" returns a
\* Decimal, "raise" raises JSONSerializationError.
FallbackReturns(kind, v) ==
    IF kind = "str" THEN Str(<<"fallback", TypeName(v)>>)
    ELSE FallbackRawValue

\* safe_json_dumps(data, fail_on_circular=True, **kwargs)
SafeDefaultFailOnCircular == TRUE

\* Serializer instances: u1, u2 are built by the user, tmp1/tmp2 is the one
\* safe_json_dumps builds for the call of caller 1/2.
UserInst == {"u1", "u2"}
SeqInst == {"u1"}
Tmp(t) == IF t = 1 THEN "tmp1" ELSE "tmp2"
Inst == UserInst \cup {Tmp(t) : t \in Threads}

\* ------------------------------------------------------------------ state
VARIABLES
    pol,       \* pol[i]: the policy serializer i was constructed with
    seen,      \* seen[i]: the traversal context self._seen of serializer i
    stk,       \* stk[t]: the call stack of caller t, innermost frame last
    ret,       \* ret[t]: what the callee that just ended handed to its caller
    inst,      \* inst[t]: the serializer the call of caller t runs on
    op,        \* op[t]: the top-level call of caller t
    fbcalls,   \* fbcalls[t]: arguments the fallback was invoked with, in order
    reported,  \* reported[t]: how this call reported a cycle, if it did
    repeat,    \* repeat[t]: this call repeats the previous one, same input
    mod,       \* the module cells.json.adapter: imported, and its HAS_ORJSON
    adapter    \* adapter[t]: the JSONAdapter of caller t

vars == <<pol, seen, stk, ret, inst, op, fbcalls, reported, repeat, mod,
          adapter>>

\* The state of the adapter module and of the adapters.
adapterVars == <<mod, adapter>>

NoRet == [st |-> "none", val |-> None, exc |-> Exc("", "")]
Val(v) == [st |-> "val", val |-> v, exc |-> Exc("", "")]
Raised(e) == [st |-> "exc", val |-> None, exc |-> e]

Frame(fn, obj) ==
    [fn |-> fn, st |-> "start", obj |-> obj, rem |-> <<>>, acc |-> <<>>,
     key |-> "", mode |-> "", unordered |-> FALSE]

\* No JSONAdapter constructed yet.
NoAdapter == [state |-> "none", backend |-> "", use_orjson |-> FALSE,
              use_builtin |-> FALSE]

IdleOp == [name |-> "idle", root |-> None, foc |-> "absent",
           ignore_errors |-> FALSE]

Init ==
    /\ \E p \in Policies : pol = [i \in Inst |-> p]
    /\ seen = [i \in Inst |-> {}]
    /\ stk = [t \in Threads |-> <<>>]
    /\ ret = [t \in Threads |-> NoRet]
    /\ inst = [t \in Threads |-> "u1"]
    /\ op = [t \in Threads |-> IdleOp]
    /\ fbcalls = [t \in Threads |-> <<>>]
    /\ reported = [t \in Threads |-> "no"]
    /\ repeat = [t \in Threads |-> FALSE]
    /\ mod = [imported |-> FALSE, HAS_ORJSON |-> FALSE]
    /\ adapter = [t \in Threads |-> NoAdapter]

\* ------------------------------------------------------------------ helpers
Depth(t) == Len(stk[t])
Top(t) == stk[t][Len(stk[t])]
Front(q) == SubSeq(q, 1, Len(q) - 1)
Running(t) == stk[t] # <<>>
Done(t) == stk[t] = <<>> /\ ret[t].st # "none"
Returned(t) == stk[t] = <<>> /\ ret[t].st = "val"
Failed(t) == stk[t] = <<>> /\ ret[t].st = "exc"
Policy(t) == pol[inst[t]]

\* Seen for a context kept on the class, one set for all serializers.
SeenOfAllInstances(t) == UNION {seen[i] : i \in Inst}

\* self._seen of the serializer the call of t runs on
Seen(t) == seen[inst[t]]

\* The frame on top ends: it returns v to / raises e in its caller.
Return(t, v) ==
    /\ stk' = [stk EXCEPT ![t] = Front(@)]
    /\ ret' = [ret EXCEPT ![t] = Val(v)]
Raise(t, e) ==
    /\ stk' = [stk EXCEPT ![t] = Front(@)]
    /\ ret' = [ret EXCEPT ![t] = Raised(e)]

\* The frame on top becomes f and calls g; at the recursion limit the call
\* raises RecursionError in f instead (orjson.JSONEncodeError when g is a
\* level of orjson's own recursion).
Invoke(t, f, g) ==
    LET q == [stk[t] EXCEPT ![Len(stk[t])] = f] IN
    IF Len(q) >= MaxDepth
    THEN /\ stk' = [stk EXCEPT ![t] = q]
         /\ ret' = [ret EXCEPT ![t] =
                      Raised(Exc(IF g.fn = "oenc" THEN "JSONEncodeError"
                                 ELSE "RecursionError", ""))]
    ELSE /\ stk' = [stk EXCEPT ![t] = Append(q, g)]
         /\ ret' = [ret EXCEPT ![t] = NoRet]

\* The frames of an encoder walking a dict/list: json.dumps called by
\* UniversalSerializer.dumps, json.dumps called by the adapter, orjson.dumps.
EncoderFrames == {"enc", "jenc", "oenc"}

\* d[key] = val on the entries of a dict under construction.
Put(acc, key, val) ==
    IF \E j \in 1..Len(acc) : acc[j].key = key
    THEN [j \in 1..Len(acc) |->
             IF acc[j].key = key THEN Item(key, val) ELSE acc[j]]
    ELSE Append(acc, Item(key, val))

RemoveAt(q, i) == SubSeq(q, 1, i - 1) \o SubSeq(q, i + 1, Len(q))

\* Discard that never removes: the context as a set of all objects met.
DiscardNever(t, f) == UNCHANGED seen

\* finally: self._seen.discard(obj_id), when the frame is _serialize_object
Discard(t, f) ==
    IF f.fn = "sobj"
    THEN seen' = [seen EXCEPT ![inst[t]] = @ \ {f.obj.n}]
    ELSE UNCHANGED seen

\* ------------------------------------------------------------------ calls
\* A caller starts a top-level call: convert is serializer.default(value),
\* dumps is serializer.dumps(value), safe is safe_json_dumps(value, ...).
Call(t, name, i, root, foc, ie) ==
    /\ stk[t] = <<>>
    /\ op' = [op EXCEPT ![t] = [name |-> name, root |-> root, foc |-> foc,
                                ignore_errors |-> ie]]
    /\ inst' = [inst EXCEPT ![t] = IF name = "safe" THEN Tmp(t) ELSE i]
    /\ stk' = [stk EXCEPT ![t] =
                 <<Frame(IF name = "convert" THEN "ser" ELSE name, root)>>]
    /\ ret' = [ret EXCEPT ![t] = NoRet]
    /\ fbcalls' = [fbcalls EXCEPT ![t] = <<>>]
    /\ reported' = [reported EXCEPT ![t] = "no"]
    /\ UNCHANGED <<pol, seen>>
    /\ UNCHANGED adapterVars

CallConvert(t, insts) ==
    /\ \E i \in insts, r \in Roots : Call(t, "convert", i, r, "absent", FALSE)
    /\ repeat' = [repeat EXCEPT ![t] = FALSE]

CallDumps(t, insts) ==
    /\ \E i \in insts, r \in Roots : Call(t, "dumps", i, r, "absent", FALSE)
    /\ repeat' = [repeat EXCEPT ![t] = FALSE]

CallSafe(t) ==
    /\ \E r \in SafeRoots, foc \in {"absent", "true", "false"},
          ie \in BOOLEAN :
          Call(t, "safe", Tmp(t), r, foc, ie)
    /\ repeat' = [repeat EXCEPT ![t] = FALSE]

\* The caller makes the call it made last once more, on the same serializer
\* and the same value.
CallAgain(t) ==
    /\ Done(t)
    /\ ~repeat[t]
    /\ Call(t, op[t].name, inst[t], op[t].root, op[t].foc,
            op[t].ignore_errors)
    /\ repeat' = [repeat EXCEPT ![t] = TRUE]

\* ------------------------------------------------------------------ safe_json_dumps
\* serializer = UniversalSerializer(fail_on_circular=fail_on_circular);
\* return serializer.dumps(data, **kwargs)
SafeStart(t) ==
    /\ Running(t) /\ Top(t).fn = "safe" /\ Top(t).st = "start"
    /\ pol' = [pol EXCEPT ![Tmp(t)] =
                 [strict |-> FALSE, ignore_unknown |-> FALSE,
                  fail_on_circular |->
                      IF op[t].foc = "absent" THEN SafeDefaultFailOnCircular
                      ELSE op[t].foc = "true",
                  default |-> "none"]]
    /\ seen' = [seen EXCEPT ![Tmp(t)] = {}]
    /\ Invoke(t, [Top(t) EXCEPT !.st = "try"], Frame("dumps", Top(t).obj))
    /\ UNCHANGED <<inst, op, fbcalls, reported, repeat>>
    /\ UNCHANGED adapterVars

\* except JSONSerializationError: ignore_errors -> default_value ("null"),
\* otherwise re-raise; any other exception passes through.
SafeFinish(t) ==
    /\ Running(t) /\ Top(t).fn = "safe" /\ Top(t).st = "try"
    /\ ret[t].st # "none"
    /\ IF ret[t].st = "exc" /\ IsA(ret[t].exc, {"JSONSerializationError"})
          /\ op[t].ignore_errors
       THEN Return(t, None)
       ELSE stk' = [stk EXCEPT ![t] = Front(@)] /\ UNCHANGED ret
    /\ UNCHANGED <<pol, seen, inst, op, fbcalls, reported, repeat>>
    /\ UNCHANGED adapterVars

\* ------------------------------------------------------------------ dumps
\* json.dumps(obj, default=self.default, check_circular=False)
DumpsStart(t) ==
    /\ Running(t) /\ Top(t).fn = "dumps" /\ Top(t).st = "start"
    /\ Invoke(t, [Top(t) EXCEPT !.st = "try"], Frame("enc", Top(t).obj))
    /\ UNCHANGED <<pol, seen, inst, op, fbcalls, reported, repeat>>
    /\ UNCHANGED adapterVars

\* except (TypeError, ValueError) as e:
\*     raise JSONSerializationError(obj, str(e)) from e
DumpsFinish(t) ==
    /\ Running(t) /\ Top(t).fn = "dumps" /\ Top(t).st = "try"
    /\ ret[t].st # "none"
    /\ IF ret[t].st = "exc" /\ IsA(ret[t].exc, {"TypeError", "ValueError"})
       THEN Raise(t, Exc("JSONSerializationError", TypeName(Top(t).obj)))
       ELSE stk' = [stk EXCEPT ![t] = Front(@)] /\ UNCHANGED ret
    /\ UNCHANGED <<pol, seen, inst, op, fbcalls, reported, repeat>>
    /\ UNCHANGED adapterVars

\* ------------------------------------------------------------------ json encoder
\* The encoder of the standard library, check_circular off: primitives are
\* written, dict/list/tuple are walked, anything else goes to default=.
EncodeDispatch(t) ==
    /\ Running(t) /\ Top(t).fn = "enc" /\ Top(t).st = "start"
    /\ LET o == Top(t).obj
           r == EncoderRule(o) IN
       IF r = "primitive" THEN Return(t, o)
       ELSE IF r \in {"dict", "list"}
       THEN /\ stk' = [stk EXCEPT ![t][Len(stk[t])] =
                         [@ EXCEPT !.st = "iter", !.rem = ItemsOf(o),
                                   !.mode = IF r = "dict" THEN "map"
                                            ELSE "list"]]
            /\ UNCHANGED ret
       ELSE Invoke(t, [Top(t) EXCEPT !.st = "default"], Frame("ser", o))
    /\ UNCHANGED <<pol, seen, inst, op, fbcalls, reported, repeat>>
    /\ UNCHANGED adapterVars

\* o = default(o) returned: the encoder encodes what it returned.
EncodeDefaultResult(t) ==
    /\ Running(t) /\ Top(t).fn = "enc" /\ Top(t).st = "default"
    /\ ret[t].st = "val"
    /\ Invoke(t, [Top(t) EXCEPT !.st = "reenc"], Frame("enc", ret[t].val))
    /\ UNCHANGED <<pol, seen, inst, op, fbcalls, reported, repeat>>
    /\ UNCHANGED adapterVars

\* The encoding of default's result ends, or default raised.
EncodeFinish(t) ==
    /\ Running(t) /\ Top(t).fn = "enc"
    /\ \/ Top(t).st = "reenc" /\ ret[t].st # "none"
       \/ Top(t).st = "default" /\ ret[t].st = "exc"
    /\ stk' = [stk EXCEPT ![t] = Front(@)]
    /\ UNCHANGED <<ret, pol, seen, inst, op, fbcalls, reported, repeat>>
    /\ UNCHANGED adapterVars

\* ------------------------------------------------------------------ _serialize
\* The isinstance chain of _serialize.
SerializeDispatch(t) ==
    /\ Running(t) /\ Top(t).fn = "ser" /\ Top(t).st = "start"
    /\ LET o == Top(t).obj
           r == Rule(o) IN
       IF r \in LeafRules THEN Return(t, LeafResult(o))
       ELSE IF r \in {"dict", "list", "set"}
       THEN /\ stk' = [stk EXCEPT ![t][Len(stk[t])] =
                         [@ EXCEPT !.st = "iter", !.rem = ItemsOf(o),
                                   !.mode = IF r = "dict" THEN "map"
                                            ELSE "list",
                                   !.unordered = (r = "set")]]
            /\ UNCHANGED ret
       ELSE Invoke(t, [Top(t) EXCEPT !.st = "try"], Frame("sobj", o))
    /\ UNCHANGED <<pol, seen, inst, op, fbcalls, reported, repeat>>
    /\ UNCHANGED adapterVars

\* return self._serialize_object(obj): it returned, or raised something
\* that is not a JSONSerializationError.
SerializeObjectDone(t) ==
    /\ Running(t) /\ Top(t).fn = "ser" /\ Top(t).st = "try"
    /\ \/ ret[t].st = "val"
       \/ ret[t].st = "exc" /\ ~IsA(ret[t].exc, {"JSONSerializationError"})
    /\ stk' = [stk EXCEPT ![t] = Front(@)]
    /\ UNCHANGED <<ret, pol, seen, inst, op, fbcalls, reported, repeat>>
    /\ UNCHANGED adapterVars

\* ChainBranch with ignore_unknown tested before strict.
ChainBranchIgnoreFirst(p) ==
    IF p.ignore_unknown THEN "ignore"
    ELSE IF p.strict THEN "strict"
    ELSE IF p.default # "none" THEN "fallback"
    ELSE "raise"

\* The branch of the except clause that fires under policy p.
ChainBranch(p) ==
    IF p.strict THEN "strict"
    ELSE IF p.ignore_unknown THEN "ignore"
    ELSE IF p.default # "none" THEN "fallback"
    ELSE "raise"

\* except JSONSerializationError: strict -> raise; ignore_unknown -> None;
\* default -> default(obj); else raise.
FallbackChain(t) ==
    /\ Running(t) /\ Top(t).fn = "ser" /\ Top(t).st = "try"
    /\ ret[t].st = "exc" /\ IsA(ret[t].exc, {"JSONSerializationError"})
    /\ LET b == ChainBranch(Policy(t))
           o == Top(t).obj IN
       /\ IF b = "ignore" THEN Return(t, None)
          ELSE IF b = "fallback"
          THEN IF Policy(t).default = "raise"
               THEN Raise(t, Exc("JSONSerializationError", TypeName(o)))
               ELSE Return(t, FallbackReturns(Policy(t).default, o))
          ELSE stk' = [stk EXCEPT ![t] = Front(@)] /\ UNCHANGED ret
       /\ fbcalls' = [fbcalls EXCEPT ![t] =
                        IF b = "fallback" THEN Append(@, o) ELSE @]
    /\ UNCHANGED <<pol, seen, inst, op, reported, repeat>>
    /\ UNCHANGED adapterVars

\* ------------------------------------------------------------------ _serialize_object
\* The cycle check: obj_id in self._seen -> raise / return the marker;
\* otherwise self._seen.add(obj_id).
ObjectEnter(t) ==
    /\ Running(t) /\ Top(t).fn = "sobj" /\ Top(t).st = "start"
    /\ LET o == Top(t).obj IN
       IF o.n \in Seen(t)
       THEN /\ IF Policy(t).fail_on_circular
               THEN /\ Raise(t, Exc("CircularReferenceError", TypeName(o)))
                    /\ reported' = [reported EXCEPT ![t] = "error"]
               ELSE /\ Return(t, Sentinel(o))
                    /\ reported' = [reported EXCEPT ![t] = "sentinel"]
            /\ UNCHANGED seen
       ELSE /\ seen' = [seen EXCEPT ![inst[t]] = @ \cup {o.n}]
            /\ stk' = [stk EXCEPT ![t][Len(stk[t])].st = "body"]
            /\ UNCHANGED <<ret, reported>>
    /\ UNCHANGED <<pol, inst, op, fbcalls, repeat>>
    /\ UNCHANGED adapterVars

\* The slots of o that are assigned (hasattr(obj, slot)).
SetSlots(o) == SelectSeq(o.slots, LAMBDA it : it.val # Unset)

\* The try block: to_dict(), else __dict__, else __slots__, else raise;
\* the finally clause runs when the block ends here.
ObjectBody(t) ==
    /\ Running(t) /\ Top(t).fn = "sobj" /\ Top(t).st = "body"
    /\ LET f == Top(t)
           o == Heap[f.obj.n]
           iter(items) ==
               /\ stk' = [stk EXCEPT ![t][Len(stk[t])] =
                            [@ EXCEPT !.st = "iter", !.rem = items,
                                      !.mode = "map"]]
               /\ UNCHANGED <<ret, seen>> IN
       IF o.todict = "map" THEN iter(o.td)
       ELSE IF o.todict = "raw" THEN Return(t, o.raw) /\ Discard(t, f)
       ELSE IF o.hasdict THEN iter(o.attrs)
       ELSE IF o.hasslots THEN iter(SetSlots(o))
       ELSE /\ Raise(t, Exc("JSONSerializationError", TypeName(f.obj)))
            /\ Discard(t, f)
    /\ UNCHANGED <<pol, inst, op, fbcalls, reported, repeat>>
    /\ UNCHANGED adapterVars

\* ------------------------------------------------------------------ comprehensions
\* IterNext that does not advance over the entries of a mapping.
IterNextStuck(t) ==
    /\ Running(t) /\ Top(t).st = "iter" /\ ret[t].st = "none"
    /\ Top(t).rem # <<>>
    /\ LET f == Top(t) IN
       \E i \in (IF f.unordered THEN 1..Len(f.rem) ELSE {1}) :
          Invoke(t, [f EXCEPT !.rem = IF f.mode = "map" THEN f.rem
                                      ELSE RemoveAt(f.rem, i),
                              !.key = f.rem[i].key],
                 Frame(IF f.fn \in EncoderFrames THEN f.fn ELSE "ser",
                       f.rem[i].val))
    /\ UNCHANGED <<pol, seen, inst, op, fbcalls, reported, repeat>>
    /\ UNCHANGED adapterVars

\* {k: self._serialize(v) for k, v in ...} / [self._serialize(item) ...]
\* and the encoder's walk of a dict or list: the next entry is converted.
IterNext(t) ==
    /\ Running(t) /\ Top(t).st = "iter" /\ ret[t].st = "none"
    /\ Top(t).rem # <<>>
    /\ LET f == Top(t) IN
       \E i \in (IF f.unordered THEN 1..Len(f.rem) ELSE {1}) :
          Invoke(t, [f EXCEPT !.rem = RemoveAt(f.rem, i),
                              !.key = f.rem[i].key],
                 Frame(IF f.fn \in EncoderFrames THEN f.fn ELSE "ser",
                       f.rem[i].val))
    /\ UNCHANGED <<pol, seen, inst, op, fbcalls, reported, repeat>>
    /\ UNCHANGED adapterVars

\* The converted entry is stored under its key.
IterCollect(t) ==
    /\ Running(t) /\ Top(t).st = "iter" /\ ret[t].st = "val"
    /\ stk' = [stk EXCEPT ![t][Len(stk[t])].acc =
                 IF Top(t).mode = "map"
                 THEN Put(@, Top(t).key, ret[t].val)
                 ELSE Append(@, Item(Top(t).key, ret[t].val))]
    /\ ret' = [ret EXCEPT ![t] = NoRet]
    /\ UNCHANGED <<pol, seen, inst, op, fbcalls, reported, repeat>>
    /\ UNCHANGED adapterVars

\* All entries are converted: the new dict/list is returned.
IterReturn(t) ==
    /\ Running(t) /\ Top(t).st = "iter" /\ ret[t].st = "none"
    /\ Top(t).rem = <<>>
    /\ Return(t, IF Top(t).mode = "map" THEN Map(Top(t).acc)
                 ELSE Lst(Top(t).acc))
    /\ Discard(t, Top(t))
    /\ UNCHANGED <<pol, inst, op, fbcalls, reported, repeat>>
    /\ UNCHANGED adapterVars

\* IterUnwind with the discard on the normal path only (no finally).
IterUnwindNoFinally(t) ==
    /\ Running(t) /\ Top(t).st = "iter" /\ ret[t].st = "exc"
    /\ stk' = [stk EXCEPT ![t] = Front(@)]
    /\ UNCHANGED <<seen, ret, pol, inst, op, fbcalls, reported, repeat>>
    /\ UNCHANGED adapterVars

\* The conversion of an entry raised: the exception leaves the frame.
IterUnwind(t) ==
    /\ Running(t) /\ Top(t).st = "iter" /\ ret[t].st = "exc"
    /\ stk' = [stk EXCEPT ![t] = Front(@)]
    /\ Discard(t, Top(t))
    /\ UNCHANGED <<ret, pol, inst, op, fbcalls, reported, repeat>>
    /\ UNCHANGED adapterVars

\* ------------------------------------------------------------------ specification
Step(t) ==
    \/ SafeStart(t)
    \/ SafeFinish(t)
    \/ DumpsStart(t)
    \/ DumpsFinish(t)
    \/ EncodeDispatch(t)
    \/ EncodeDefaultResult(t)
    \/ EncodeFinish(t)
    \/ SerializeDispatch(t)
    \/ SerializeObjectDone(t)
    \/ FallbackChain(t)
    \/ ObjectEnter(t)
    \/ ObjectBody(t)
    \/ IterNext(t)
    \/ IterCollect(t)
    \/ IterReturn(t)
    \/ IterUnwind(t)

\* One top-level call at a time, all on serializer u1 (and the serializer
\* safe_json_dumps builds).
Next ==
    \E t \in SeqThreads :
        \/ CallConvert(t, SeqInst)
        \/ CallDumps(t, SeqInst)
        \/ CallSafe(t)
        \/ CallAgain(t)
        \/ Step(t)

Spec == Init /\ [][Next]_vars

\* Serializer-only steps: a call of default()/_serialize and nothing else.
ConvertStep(t) ==
    \/ SerializeDispatch(t)
    \/ SerializeObjectDone(t)
    \/ FallbackChain(t)
    \/ ObjectEnter(t)
    \/ ObjectBody(t)
    \/ IterNext(t)
    \/ IterCollect(t)
    \/ IterReturn(t)
    \/ IterUnwind(t)

NextConvert ==
    \E t \in SeqThreads :
        \/ CallConvert(t, SeqInst)
        \/ CallAgain(t)
        \/ ConvertStep(t)

\* The conversion is synchronous code without suspension points: a call
\* that can take its next step takes it.
SpecConvert ==
    Init /\ [][NextConvert]_vars
         /\ WF_vars(\E t \in SeqThreads : ConvertStep(t))

\* ------------------------------------------------------------------ threads
\* The values two threads convert at the same time: a Point, and a Holder
\* whose attribute is an object().
ConcRoots == {Ref(10), Ref(15)}

\* Thread t calls serializer.default(value).  Thread 1 holds serializer u1;
\* thread 2 holds either the same serializer or u2, and keeps it.
ConcCall(t) ==
    /\ \E i \in (IF t = 1 THEN {"u1"}
                 ELSE IF op[t].name = "idle" THEN UserInst ELSE {inst[t]}),
          r \in ConcRoots :
          Call(t, "convert", i, r, "absent", FALSE)
    /\ UNCHANGED repeat

\* Two threads without synchronization: a thread switch can happen between
\* any two steps of a call.  The membership test and the add of the cycle
\* check stay one step: a switch between the two lets both calls enter the
\* object, which is what they do on separate serializers.
NextConc ==
    \E t \in Threads :
        \/ ConcCall(t)
        \/ ConvertStep(t)

SpecConc == Init /\ [][NextConc]_vars

\* ------------------------------------------------------------------ adapter
\* The backend names passed to JSONAdapter(backend=...): None, the three
\* documented names, and a name that is none of them.
Backends == {"None", "auto", "json", "orjson", "yaml"}

\* try: import orjson; HAS_ORJSON = True / except ImportError: ... = False
ImportAdapter ==
    /\ ~mod.imported
    /\ \E available \in BOOLEAN :
          mod' = [imported |-> TRUE, HAS_ORJSON |-> available]
    /\ UNCHANGED <<pol, seen, stk, ret, inst, op, fbcalls, reported, repeat,
                   adapter>>

\* SelectBackend where "orjson" is taken without looking at HAS_ORJSON.
SelectBackendUnchecked(backend, has_orjson) ==
    LET b == IF backend = "None" THEN "auto" ELSE backend IN
    IF b = "auto" THEN [state |-> "ok", use_orjson |-> has_orjson]
    ELSE IF b = "json" THEN [state |-> "ok", use_orjson |-> FALSE]
    ELSE IF b = "orjson" THEN [state |-> "ok", use_orjson |-> TRUE]
    ELSE [state |-> "ValueError", use_orjson |-> FALSE]

\* The if/elif chain of JSONAdapter.__init__: the outcome of the
\* construction and the value of self._use_orjson.
SelectBackend(backend, has_orjson) ==
    LET b == IF backend = "None" THEN "auto" ELSE backend IN
    IF b = "auto" THEN [state |-> "ok", use_orjson |-> has_orjson]
    ELSE IF b = "json" THEN [state |-> "ok", use_orjson |-> FALSE]
    ELSE IF b = "orjson"
    THEN IF ~has_orjson
         THEN [state |-> "RuntimeError", use_orjson |-> FALSE]
         ELSE [state |-> "ok", use_orjson |-> TRUE]
    ELSE [state |-> "ValueError", use_orjson |-> FALSE]

\* The serializer JSONAdapter.__init__ builds for the adapter of caller t.
AdapterInst(t) == IF t = 1 THEN "u1" ELSE "u2"

\* Caller 1 constructs an adapter with any arguments; caller 2 constructs
\* the adapter JSONAdapter(backend="json", use_builtin=...) the output of
\* caller 1's adapter is compared with.  Both pass the same **kwargs.
AdapterNew(t) ==
    /\ mod.imported
    /\ adapter[t].state = "none"
    /\ \E b \in (IF t = 1 THEN Backends ELSE {"json"}),
          use_builtin \in BOOLEAN :
          LET sel == SelectBackend(b, mod.HAS_ORJSON) IN
          adapter' = [adapter EXCEPT ![t] =
                        [state |-> sel.state, backend |-> b,
                         use_orjson |-> sel.use_orjson,
                         use_builtin |-> sel.state = "ok" /\ use_builtin]]
    /\ UNCHANGED <<pol, seen, stk, ret, inst, op, fbcalls, reported, repeat,
                   mod>>

\* The values adapter.dumps is called on.
AdapterRoots ==
    {V("int", 42), V("datetime", 1), V("Decimal", 1), V("Enum", 1),
     V("UUID", 1), Ref(1), Ref(5), Ref(9), Ref(10), Ref(16), Ref(18)}

\* adapter.dumps(value): caller 1 on any value, once; caller 2 on the value
\* of caller 1, after that call has ended.
AdapterCall(t) ==
    /\ adapter[t].state = "ok"
    /\ op[t].name = "idle"
    /\ \E r \in AdapterRoots :
          /\ t # 1 => Done(1) /\ r = op[1].root
          /\ Call(t, "adumps", AdapterInst(t), r, "absent", FALSE)
    /\ UNCHANGED repeat

\* dumps with the backend taken from the name passed to the constructor.
EncoderOfBackendName(a) == IF a.backend # "json" THEN "oenc" ELSE "jenc"

\* if self._use_orjson: self._orjson_dumps(...) else: self._json_dumps(...)
EncoderOf(a) == IF a.use_orjson THEN "oenc" ELSE "jenc"

\* json.dumps returns a str, written with the separators ", " and ": ";
\* orjson.dumps returns bytes, written without whitespace.
Text(tree) == [k |-> "text", n |-> 0, s |-> <<", ", ": ">>,
               items |-> <<Item("", tree)>>]
Bytes(tree) == [k |-> "bytes", n |-> 0, s |-> <<",", ":">>,
                items |-> <<Item("", tree)>>]

AdapterDumpsStart(t) ==
    /\ Running(t) /\ Top(t).fn = "adumps" /\ Top(t).st = "start"
    /\ Invoke(t, [Top(t) EXCEPT !.st = "try"],
              Frame(EncoderOf(adapter[t]), Top(t).obj))
    /\ UNCHANGED <<pol, seen, inst, op, fbcalls, reported, repeat>>
    /\ UNCHANGED adapterVars

\* The backend returned its str / bytes, or raised: the adapter wraps no
\* exception.
AdapterDumpsFinish(t) ==
    /\ Running(t) /\ Top(t).fn = "adumps" /\ Top(t).st = "try"
    /\ ret[t].st # "none"
    /\ IF ret[t].st = "val"
       THEN Return(t, IF EncoderOf(adapter[t]) = "oenc"
                      THEN Bytes(ret[t].val) ELSE Text(ret[t].val))
       ELSE stk' = [stk EXCEPT ![t] = Front(@)] /\ UNCHANGED ret
    /\ UNCHANGED <<pol, seen, inst, op, fbcalls, reported, repeat>>
    /\ UNCHANGED adapterVars

\* markers of the json encoder (check_circular is left on by _json_dumps):
\* the dict/list being walked and the objects handed to default= in the
\* outer levels of the encoding.
InMarkers(t, o) ==
    /\ o.k = "ref"
    /\ \E j \in 1..(Len(stk[t]) - 1) :
          /\ stk[t][j].fn = "jenc" /\ stk[t][j].st # "start"
          /\ stk[t][j].obj = o

\* json.dumps(obj, default=self._serializer.default, ensure_ascii=False)
JsonEncodeDispatch(t) ==
    /\ Running(t) /\ Top(t).fn = "jenc" /\ Top(t).st = "start"
    /\ LET o == Top(t).obj
           r == EncoderRule(o) IN
       IF r = "primitive" THEN Return(t, o)
       ELSE IF InMarkers(t, o) THEN Raise(t, Exc("ValueError", ""))
       ELSE IF r \in {"dict", "list"}
       THEN /\ stk' = [stk EXCEPT ![t][Len(stk[t])] =
                         [@ EXCEPT !.st = "iter", !.rem = ItemsOf(o),
                                   !.mode = IF r = "dict" THEN "map"
                                            ELSE "list"]]
            /\ UNCHANGED ret
       ELSE Invoke(t, [Top(t) EXCEPT !.st = "default"], Frame("ser", o))
    /\ UNCHANGED <<pol, seen, inst, op, fbcalls, reported, repeat>>
    /\ UNCHANGED adapterVars

\* What orjson does with o without being asked: "primitive" (str, int,
\* float, bool, None), "list" (list, tuple), "dict", "native" (datetime,
\* date, time, UUID: written by orjson itself), "enum" (the member's value
\* is encoded), or "default" (everything else goes to default=).
OrjsonRule(o) ==
    IF o.k = "none" \/ IsInstance(o, {"str", "int", "float", "bool"})
    THEN "primitive"
    ELSE IF IsInstance(o, {"list", "tuple"}) THEN "list"
    ELSE IF IsInstance(o, {"dict"}) THEN "dict"
    ELSE IF IsInstance(o, {"datetime", "date", "time", "UUID"})
    THEN "native"
    ELSE IF IsInstance(o, {"Enum"}) THEN "enum"
    ELSE "default"

\* orjson's own rendering: RFC 3339 for datetime/date/time, the canonical
\* form for UUID.
OrjsonNative(v) ==
    IF TypeName(v) = "UUID"
    THEN [k |-> "str", n |-> v.n, s |-> <<"uuid">>, items |-> <<>>]
    ELSE [k |-> "str", n |-> v.n, s |-> <<"rfc3339", TypeName(v)>>,
          items |-> <<>>]

\* default = None if self._use_builtin else self._serializer.default
OrjsonDefault(a) == IF a.use_builtin THEN "None" ELSE "serializer"

\* orjson.dumps(obj, default=default)
OrjsonEncodeDispatch(t) ==
    /\ Running(t) /\ Top(t).fn = "oenc" /\ Top(t).st = "start"
    /\ LET o == Top(t).obj
           r == OrjsonRule(o) IN
       IF r = "primitive" THEN Return(t, o)
       ELSE IF r = "native" THEN Return(t, OrjsonNative(o))
       ELSE IF r \in {"dict", "list"}
       THEN /\ stk' = [stk EXCEPT ![t][Len(stk[t])] =
                         [@ EXCEPT !.st = "iter", !.rem = ItemsOf(o),
                                   !.mode = IF r = "dict" THEN "map"
                                            ELSE "list"]]
            /\ UNCHANGED ret
       ELSE IF r = "enum"
       THEN Invoke(t, [Top(t) EXCEPT !.st = "reenc"],
                   Frame("oenc", _serialize_enum(o)))
       ELSE IF OrjsonDefault(adapter[t]) = "None"
       THEN Raise(t, Exc("JSONEncodeError", TypeName(o)))
       ELSE Invoke(t, [Top(t) EXCEPT !.st = "default"], Frame("ser", o))
    /\ UNCHANGED <<pol, seen, inst, op, fbcalls, reported, repeat>>
    /\ UNCHANGED adapterVars

\* default= returned: the backend encodes what it returned.
AdapterEncodeDefaultResult(t) ==
    /\ Running(t) /\ Top(t).fn \in {"jenc", "oenc"} /\ Top(t).st = "default"
    /\ ret[t].st = "val"
    /\ Invoke(t, [Top(t) EXCEPT !.st = "reenc"],
              Frame(Top(t).fn, ret[t].val))
    /\ UNCHANGED <<pol, seen, inst, op, fbcalls, reported, repeat>>
    /\ UNCHANGED adapterVars

\* The encoding of default='s result ends, or default= raised: json lets
\* the exception through, orjson raises JSONEncodeError from it.
AdapterEncodeFinish(t) ==
    /\ Running(t) /\ Top(t).fn \in {"jenc", "oenc"}
    /\ \/ Top(t).st = "reenc" /\ ret[t].st # "none"
       \/ Top(t).st = "default" /\ ret[t].st = "exc"
    /\ IF Top(t).fn = "oenc" /\ Top(t).st = "default"
       THEN Raise(t, Exc("JSONEncodeError", TypeName(Top(t).obj)))
       ELSE stk' = [stk EXCEPT ![t] = Front(@)] /\ UNCHANGED ret
    /\ UNCHANGED <<pol, seen, inst, op, fbcalls, reported, repeat>>
    /\ UNCHANGED adapterVars

AdapterStep(t) ==
    \/ AdapterDumpsStart(t)
    \/ AdapterDumpsFinish(t)
    \/ JsonEncodeDispatch(t)
    \/ OrjsonEncodeDispatch(t)
    \/ AdapterEncodeDefaultResult(t)
    \/ AdapterEncodeFinish(t)
    \/ ConvertStep(t)

\* The adapter module is imported, the two adapters are constructed and
\* called one after the other.
NextAdapter ==
    \/ ImportAdapter
    \/ \E t \in Threads :
          \/ AdapterNew(t)
          \/ AdapterCall(t)
          \/ AdapterStep(t)

SpecAdapter == Init /\ [][NextAdapter]_vars

\* ------------------------------------------------------------------ graph
RECURSIVE RefsIn(_)
\* The heap addresses a value refers to, directly or inside fresh containers.
RefsIn(v) ==
    IF v.k = "ref" THEN {v.n}
    ELSE UNION {RefsIn(v.items[j].val) : j \in 1..Len(v.items)}

RefsOfItems(items) == UNION {RefsIn(items[j].val) : j \in 1..Len(items)}

\* The objects heap object a refers to.
Succ(a) ==
    RefsOfItems(Heap[a].items) \cup RefsOfItems(Heap[a].td)
    \cup RefsOfItems(Heap[a].attrs) \cup RefsOfItems(Heap[a].slots)
    \cup RefsIn(Heap[a].raw)

RECURSIVE Closure(_)
Closure(S) ==
    LET T == S \cup UNION {Succ(a) : a \in S} IN
    IF T = S THEN S ELSE Closure(T)

\* The objects reachable from a in one or more steps.
ReachPlus(a) == Closure(Succ(a))

\* No object reachable from v is its own descendant.
Acyclic(v) ==
    \A a \in Closure(RefsIn(v)) : a \notin ReachPlus(a)

\* ------------------------------------------------------------------ results
JsonKinds == {"none", "bool", "int", "float", "str", "map", "list"}

RECURSIVE IsJsonTree(_)
\* v is null, a boolean, a number, a string, or a list / string-keyed
\* mapping of such values.
IsJsonTree(v) ==
    /\ v.k \in JsonKinds
    /\ \A j \in 1..Len(v.items) : IsJsonTree(v.items[j].val)

RECURSIVE RawNodes(_)
\* The values inside v that are not of a JSON kind.
RawNodes(v) ==
    IF v.k \notin JsonKinds THEN {v}
    ELSE UNION {RawNodes(v.items[j].val) : j \in 1..Len(v.items)}

HasKey(v, key) == \E j \in 1..Len(v.items) : v.items[j].key = key
\* v[key]
Slot(v, key) ==
    v.items[CHOOSE j \in 1..Len(v.items) : v.items[j].key = key].val
\* tok in v, for a str v
HasToken(v, tok) == v.k = "str" /\ \E j \in 1..Len(v.s) : v.s[j] = tok

\* ================================================================== claims

\* No call of default()/_serialize is in progress on the stack of t.
NoConvertInFlight(t) ==
    \A j \in 1..Len(stk[t]) : stk[t][j].fn \notin {"ser", "sobj"}

\* C1: whenever no convert call is in progress (before the first call,
\* between the calls the encoder makes to default(), and after every call,
\* whether it returned a value, substituted null / the fallback result /
\* the cycle marker, or raised), the traversal context of the serializer
\* is empty.
C1_ContextEmptyAtCallEnd ==
    \A t \in SeqThreads : NoConvertInFlight(t) => seen[inst[t]] = {}

\* A convert call on Holder(inner=object()) ended by raising: both objects
\* had been entered into the context.
C1_Witness ==
    /\ Failed(1) /\ op[1].name = "convert" /\ op[1].root = Ref(15)
    /\ ret[1].exc.type = "JSONSerializationError"
    /\ seen[inst[1]] = {}

\* C2: a convert call on an acyclic input graph ends: it returns a value or
\* raises.
C2_AcyclicConvertTerminates ==
    \A t \in SeqThreads :
        (Running(t) /\ Acyclic(op[t].root)) ~> Done(t)

\* A convert call on the set {1, Point} (a collection holding an opaque
\* object) has returned its list.
C2_Witness ==
    /\ Returned(1) /\ op[1].name = "convert" /\ op[1].root = Ref(11)
    /\ Acyclic(op[1].root)
    /\ ret[1].val.k = "list" /\ Len(ret[1].val.items) = 2

\* C3: converting the self-referential mapping a = {"self": a} succeeds
\* with fail_on_circular off, the slot "self" being a string that contains
\* "CircularReference", and raises CircularReferenceError with it on.
C3_SelfReferentialMapping ==
    \A t \in SeqThreads :
        (Done(t) /\ op[t].name \in {"convert", "dumps"}
                 /\ op[t].root = Ref(1))
        => IF Policy(t).fail_on_circular
           THEN Failed(t) /\ ret[t].exc.type = "CircularReferenceError"
           ELSE /\ Returned(t)
                /\ HasKey(ret[t].val, "self")
                /\ HasToken(Slot(ret[t].val, "self"), "CircularReference")

\* An object about to be reported as a cycle: _serialize_object was called
\* on it and its id is in the context.
CycleHit(t) ==
    /\ Running(t) /\ Top(t).fn = "sobj" /\ Top(t).st = "start"
    /\ Top(t).obj.n \in Seen(t)

\* Object a is being converted in an outer frame of the call of t.
OnActivePath(t, a) ==
    \E j \in 1..(Len(stk[t]) - 1) :
        /\ stk[t][j].fn = "sobj" /\ stk[t][j].st # "start"
        /\ stk[t][j].obj.n = a

\* C4: an object is reported as a cycle only when it is its own ancestor on
\* the active recursion path of the current call; hence a call on an input
\* without a cycle (the same object in two sibling slots, or the same value
\* passed to a second call) reports none.
C4_CycleOnlyForAncestor ==
    \A t \in SeqThreads :
        /\ CycleHit(t) => OnActivePath(t, Top(t).obj.n)
        /\ reported[t] # "no" => ~Acyclic(op[t].root)

\* The second of two successive convert calls on [p, p] has returned both
\* slots converted, with no cycle reported.
C4_Witness ==
    /\ Returned(1) /\ repeat[1] /\ op[1].name = "convert"
    /\ op[1].root = Ref(9) /\ reported[1] = "no"
    /\ Len(ret[1].val.items) = 2
    /\ ret[1].val.items[1].val.k = "map"
    /\ ret[1].val.items[2].val = ret[1].val.items[1].val

\* _serialize_object raised a JSONSerializationError into _serialize.
ChainPending(t) ==
    /\ Running(t) /\ Top(t).fn = "ser" /\ Top(t).st = "try"
    /\ ret[t].st = "exc" /\ IsA(ret[t].exc, {"JSONSerializationError"})

\* C5: when the object rule fails, exactly one branch fires, in the order
\* strict (the failure propagates unchanged, the fallback is not invoked),
\* ignore_unknown (null, the fallback is not invoked), fallback (invoked
\* once with the original value, what it returns is the result), otherwise
\* the failure propagates.
C5_FallbackChainOrder ==
    [][\A t \in SeqThreads :
          ChainPending(t) =>
            LET p == Policy(t)
                o == Top(t).obj
                e == ret[t].exc
                left == stk'[t] = Front(stk[t]) IN
            IF p.strict
            THEN left /\ ret'[t] = Raised(e) /\ fbcalls'[t] = fbcalls[t]
            ELSE IF p.ignore_unknown
            THEN left /\ ret'[t] = Val(None) /\ fbcalls'[t] = fbcalls[t]
            ELSE IF p.default # "none"
            THEN /\ left
                 /\ fbcalls'[t] = Append(fbcalls[t], o)
                 /\ p.default # "raise"
                      => ret'[t] = Val(FallbackReturns(p.default, o))
            ELSE left /\ ret'[t] = Raised(e) /\ fbcalls'[t] = fbcalls[t]
      ]_vars

\* {"obj": object(), "c": 1} was converted with only a fallback configured:
\* the fallback was invoked once, with the object, and its Decimal sits in
\* the slot as returned.
C5_Witness ==
    /\ Returned(1) /\ op[1].name = "convert" /\ op[1].root = Ref(8)
    /\ ~Policy(1).strict /\ ~Policy(1).ignore_unknown
    /\ Policy(1).default = "raw"
    /\ fbcalls[1] = <<Ref(5)>>
    /\ Slot(ret[1].val, "obj") = FallbackRawValue

\* C6: object() (no to_dict, no __dict__, no __slots__) raises
\* UnsupportedTypeError under strict, converts to null under ignore_unknown,
\* and raises UnsupportedTypeError with neither flag and no fallback.
C6_UnsupportedObject ==
    \A t \in SeqThreads :
        (Done(t) /\ op[t].name = "convert" /\ op[t].root = Ref(5))
        => LET p == Policy(t) IN
           /\ p.strict
                => Failed(t) /\ ret[t].exc.type = "UnsupportedTypeError"
           /\ (~p.strict /\ p.ignore_unknown)
                => Returned(t) /\ ret[t].val = None
           /\ (~p.strict /\ ~p.ignore_unknown /\ p.default = "none")
                => Failed(t) /\ ret[t].exc.type = "UnsupportedTypeError"

\* C7: for obj = CustomType() (class body: pass), dumps({"obj": obj}) raises
\* JSONSerializationError on UniversalSerializer(strict=True) and renders
\* the slot as null on UniversalSerializer(ignore_unknown=True).
C7_PlainClassInstance ==
    \A t \in SeqThreads :
        (Done(t) /\ op[t].name = "dumps" /\ op[t].root = Ref(7)
                 /\ ~Policy(t).fail_on_circular
                 /\ Policy(t).default = "none")
        => LET p == Policy(t) IN
           /\ (p.strict /\ ~p.ignore_unknown)
                => Failed(t) /\ IsA(ret[t].exc, {"JSONSerializationError"})
           /\ (~p.strict /\ p.ignore_unknown)
                => Returned(t) /\ Slot(ret[t].val, "obj") = None

\* C8: when dumps / safe_json_dumps fails because a cycle of objects was
\* detected under fail_on_circular, the caller gets a
\* CircularReferenceError carrying the type of the cyclic object.
C8_CircularErrorReachesCaller ==
    \A t \in SeqThreads :
        (Failed(t) /\ op[t].name \in {"dumps", "safe"}
                   /\ reported[t] = "error")
        => /\ ret[t].exc.type = "CircularReferenceError"
           /\ ret[t].exc.cls = "Node"

\* C9: safe_json_dumps without a fail_on_circular argument is lenient: for
\* a = {"self": a} it returns JSON whose slot "self" is a string containing
\* "CircularReference"; it raises for a cycle only when
\* fail_on_circular=True was passed.
C9_SafeDumpsLenientByDefault ==
    \A t \in SeqThreads :
        (Done(t) /\ op[t].name = "safe")
        => /\ (op[t].foc = "absent" /\ op[t].root = Ref(1))
                => /\ Returned(t)
                   /\ HasKey(ret[t].val, "self")
                   /\ HasToken(Slot(ret[t].val, "self"), "CircularReference")
           /\ (Failed(t) /\ ~Acyclic(op[t].root)) => op[t].foc = "true"

\* C10 as stated: every value convert returns is a JSON tree.
C10_ResultIsJsonTree ==
    \A t \in SeqThreads :
        (Returned(t) /\ op[t].name = "convert") => IsJsonTree(ret[t].val)

\* C10, amended: in a value convert returns, the only values that are not
\* of a JSON kind are the ones the code hands through unconverted: the
\* value of an Enum member, a to_dict() result that is not a dict, and the
\* result of the configured fallback function.
C10_RawOnlyWherePassedThrough ==
    \A t \in SeqThreads :
        (Returned(t) /\ op[t].name = "convert")
        => RawNodes(ret[t].val) \subseteq
              ({EnumRawValue, ToDictRawValue}
               \cup (IF Policy(t).default = "raw" THEN {FallbackRawValue}
                     ELSE {}))

\* The mapping {"t": datetime, "e": Enum member, "dec": Decimal} was
\* converted: the datetime and the Decimal are JSON values, the Enum slot
\* holds the member's Decimal value as it is.
C10_Witness ==
    /\ Returned(1) /\ op[1].name = "convert" /\ op[1].root = Ref(16)
    /\ Slot(ret[1].val, "t").k = "str"
    /\ Slot(ret[1].val, "dec") = V("float", 1)
    /\ Slot(ret[1].val, "e") = EnumRawValue
    /\ ~IsJsonTree(ret[1].val)

\* C14: when _serialize_object is entered for an object whose identity is
\* already in the context, the call ends at once, without recursing and
\* with the context as it was: under fail_on_circular it raises
\* CircularReferenceError carrying the object's type name, otherwise it
\* returns exactly the string "<CircularReference {TypeName}>".
C14_CycleCheckOutcome ==
    [][\A t \in SeqThreads :
          CycleHit(t) =>
            LET name == Heap[Top(t).obj.n].cls IN
            /\ stk'[t] = Front(stk[t])
            /\ seen' = seen
            /\ ret'[t] =
                 IF Policy(t).fail_on_circular
                 THEN Raised(Exc("CircularReferenceError", name))
                 ELSE Val(Str(<<"<", "CircularReference", " ", name, ">">>))
      ]_vars

\* The cycle check has just returned the marker for a Node while the
\* node's ancestors are still being converted and still in the context.
C14_Witness ==
    /\ Running(1) /\ op[1].name = "convert" /\ op[1].root = Ref(2)
    /\ reported[1] = "sentinel"
    /\ ret[1] = Val(Str(<<"<", "CircularReference", " ", "Node", ">">>))
    /\ seen[inst[1]] = {2, 3}

\* The dict/list/tuple/set and opaque objects whose conversion by
\* _serialize / _serialize_object is in progress in the call of t.
ActivePathIds(t) ==
    {stk[t][j].obj.n : j \in
        {i \in 1..Len(stk[t]) :
            /\ stk[t][i].obj.k = "ref"
            /\ \/ stk[t][i].fn = "sobj" /\ stk[t][i].st \in {"body", "iter"}
               \/ stk[t][i].fn = "ser" /\ stk[t][i].st = "iter"}}

\* C15: at every point of a convert call the context is the set of
\* identities of the mappings, sequences, collections and opaque objects
\* currently on the active recursion path.
C15_ContextIsActivePath ==
    \A t \in SeqThreads :
        op[t].name = "convert" => seen[inst[t]] = ActivePathIds(t)

\* C16: a CircularReferenceError raised under fail_on_circular reaches the
\* caller of convert (it is not replaced by null or by the fallback's
\* result), and the fallback is invoked only with values no structural
\* rule converts: objects without to_dict, __dict__ and __slots__.
C16_ChainOnlyForOwnUnsupported ==
    \A t \in SeqThreads :
        op[t].name = "convert" =>
          /\ (Done(t) /\ reported[t] = "error")
                => /\ Failed(t)
                   /\ ret[t].exc.type = "CircularReferenceError"
          /\ \A j \in 1..Len(fbcalls[t]) :
                LET o == Heap[fbcalls[t][j].n] IN
                o.todict = "no" /\ ~o.hasdict /\ ~o.hasslots

\* C17: after the cycle check the object rule tries, in this order: a
\* callable to_dict (a dict result has every value converted under its
\* key, any other result is returned as it is; __dict__ is not looked at),
\* then __dict__, then __slots__ (assigned slots only), each giving the
\* mapping from field name to converted value; an object with none of the
\* three makes the rule fail with UnsupportedTypeError.
C17_ObjectSubStrategies ==
    \A t \in SeqThreads :
        op[t].name = "convert" =>
          /\ (Done(t) /\ op[t].root = Ref(6))
                => ret[t] = Val(Map(<<Item("name", Str(<<"Alice">>)),
                                      Item("age", V("int", 25))>>))
          /\ (Done(t) /\ op[t].root = Ref(12))
                => ret[t] = Val(V("Decimal", 8))
          /\ (Done(t) /\ op[t].root = Ref(10))
                => ret[t] = Val(Map(<<Item("x", V("int", 10)),
                                      Item("y", V("float", 1))>>))
          /\ (Done(t) /\ op[t].root = Ref(19))
                => ret[t] = Val(Map(<<Item("d", V("int", 1))>>))
          /\ (Done(t) /\ op[t].root = Ref(13))
                => ret[t] = Val(Map(<<Item("a", V("int", 1))>>))
          /\ (ChainPending(t) /\ Top(t).obj = Ref(5))
                => ret[t].exc = Exc("UnsupportedTypeError", "object")

\* The dispatch order of the specification: rule name and the classes the
\* rule is for, rules 1 to 16; rule 17 takes what is left.
SpecRuleOrder ==
    << <<"none", {"NoneType"}>>,
       <<"primitive", {"bool", "int", "float", "str"}>>,
       <<"datetime", {"datetime"}>>,
       <<"date", {"date"}>>,
       <<"time", {"time"}>>,
       <<"timedelta", {"timedelta"}>>,
       <<"Decimal", {"Decimal"}>>,
       <<"UUID", {"UUID"}>>,
       <<"Enum", {"Enum"}>>,
       <<"Path", {"Path"}>>,
       <<"numpy", {"ndarray"}>>,
       <<"pandas", {"DataFrame"}>>,
       <<"pandas", {"Series"}>>,
       <<"dict", {"dict"}>>,
       <<"list", {"list", "tuple"}>>,
       <<"set", {"set"}>> >>

\* The first rule of SpecRuleOrder v is an instance of.
FirstMatch(v) ==
    LET hits == {j \in 1..Len(SpecRuleOrder) :
                    IsInstance(v, SpecRuleOrder[j][2])} IN
    IF hits = {} THEN "object"
    ELSE SpecRuleOrder[CHOOSE j \in hits : \A i \in hits : j <= i][1]

ContainerClasses == {"dict", "list", "tuple", "set"}

\* C18: _serialize applies the first rule of the order 1-17 that matches
\* the value: a datetime (also a date) is converted by the datetime rule
\* to its ISO string; a dict, list, tuple or set is walked by its container
\* rule in the same frame, and is never handed to _serialize_object or to
\* the fallback.
C18_FirstMatchingRule ==
    /\ [](\A t \in SeqThreads :
            /\ (Running(t) /\ Top(t).fn = "ser" /\ Top(t).st = "start")
                  => Rule(Top(t).obj) = FirstMatch(Top(t).obj)
            /\ \A j \in 1..Len(stk[t]) :
                  stk[t][j].fn = "sobj"
                     => FirstMatch(stk[t][j].obj) = "object"
            /\ \A j \in 1..Len(fbcalls[t]) :
                  TypeName(fbcalls[t][j]) \notin ContainerClasses)
    /\ [][\A t \in SeqThreads :
            (Running(t) /\ Top(t).fn = "ser" /\ Top(t).st = "start") =>
              LET o == Top(t).obj IN
              /\ TypeName(o) = "datetime"
                   => /\ stk'[t] = Front(stk[t])
                      /\ ret'[t] = Val([k |-> "str", n |-> o.n,
                                        s |-> <<"iso", "datetime">>,
                                        items |-> <<>>])
              /\ TypeName(o) \in ContainerClasses
                   => /\ Len(stk'[t]) = Len(stk[t])
                      /\ stk'[t][Len(stk[t])].st = "iter"
                      /\ stk'[t][Len(stk[t])].rem = Heap[o.n].items
                      /\ fbcalls'[t] = fbcalls[t]
         ]_vars

\* A convert call on the dict {"t": datetime, ...} is walking the dict in
\* the frame of _serialize and has stored the ISO string of the datetime.
C18_Witness ==
    /\ Running(1) /\ op[1].name = "convert" /\ op[1].root = Ref(16)
    /\ Len(stk[1]) = 1 /\ stk[1][1].fn = "ser" /\ stk[1][1].st = "iter"
    /\ stk[1][1].acc =
          <<Item("t", [k |-> "str", n |-> 1, s |-> <<"iso", "datetime">>,
                       items |-> <<>>])>>

\* What serializer.default(value) returns or raises under policy p when no
\* other call runs on the serializer, for the values of ConcRoots.
AloneResult(root, p) ==
    IF root = Ref(10)
    THEN Val(Map(<<Item("x", V("int", 10)), Item("y", V("float", 1))>>))
    ELSE LET holder(inner) ==
                 Val(Map(<<Item("inner", inner), Item("tag", Str(<<"t">>))>>))
         IN
         IF p.strict THEN Raised(Exc("JSONSerializationError", "object"))
         ELSE IF p.ignore_unknown THEN holder(None)
         ELSE IF p.default = "str" THEN holder(Str(<<"fallback", "object">>))
         ELSE IF p.default = "raw" THEN holder(V("Decimal", 9))
         ELSE IF p.default = "raise"
         THEN Raised(Exc("JSONSerializationError", "Holder"))
         ELSE Raised(Exc("JSONSerializationError", "object"))

\* C19: a call reports a cycle on an acyclic value only when the other
\* thread is using the same serializer instance; two calls on distinct
\* instances do not affect each other: each context holds the objects of
\* the call's own active path and each call ends with the result it has
\* when run alone.
C19_SharedInstanceNotSafe ==
    \A t \in Threads :
        LET u == 3 - t IN
        /\ (reported[t] # "no" /\ Acyclic(op[t].root))
              => (op[u].name # "idle" /\ inst[u] = inst[t])
        /\ (op[t].name # "idle" /\ op[u].name # "idle" /\ inst[u] # inst[t])
              => /\ seen[inst[t]] = ActivePathIds(t)
                 /\ Done(t) => ret[t] = AloneResult(op[t].root, Policy(t))

\* Two calls on the shared serializer u1 convert the same Point; the call
\* of thread 2 found the Point in the context while thread 1 was inside it
\* and reported a circular reference.
C19_Witness ==
    /\ inst[1] = "u1" /\ inst[2] = "u1"
    /\ op[1].root = Ref(10) /\ op[2].root = Ref(10)
    /\ Acyclic(Ref(10))
    /\ Running(1) /\ 10 \in seen["u1"]
    /\ Done(2) /\ reported[2] # "no"

\* C11: "json" selects the standard library; "orjson" selects orjson and
\* makes the constructor raise RuntimeError when orjson is not installed;
\* "auto" and None select orjson exactly when it is installed; any other
\* name makes the constructor raise ValueError.  The selection never
\* changes once the adapter is constructed, and it is the backend every
\* dumps call runs on and whose output type (str / bytes) is returned.
C11_BackendSelection ==
    /\ [](\A t \in Threads :
            adapter[t].state # "none" =>
              LET a == adapter[t]
                  has == mod.HAS_ORJSON IN
              /\ a.backend = "json" => a.state = "ok" /\ ~a.use_orjson
              /\ a.backend = "orjson" =>
                    IF has THEN a.state = "ok" /\ a.use_orjson
                    ELSE a.state = "RuntimeError"
              /\ a.backend \in {"auto", "None"} =>
                    a.state = "ok" /\ (a.use_orjson <=> has)
              /\ a.backend \notin {"json", "orjson", "auto", "None"} =>
                    a.state = "ValueError"
              /\ \A j \in 1..Len(stk[t]) :
                    /\ stk[t][j].fn = "oenc" => a.use_orjson
                    /\ stk[t][j].fn = "jenc" => ~a.use_orjson
              /\ (Returned(t) /\ op[t].name = "adumps") =>
                    ret[t].val.k = IF a.use_orjson THEN "bytes" ELSE "text")
    /\ [][\A t \in Threads :
            adapter[t].state # "none" => adapter'[t] = adapter[t]]_vars

\* With orjson installed, JSONAdapter(backend="auto") selected orjson and
\* its dumps returned bytes.
C11_Witness ==
    /\ mod.HAS_ORJSON
    /\ adapter[1].backend = "auto" /\ adapter[1].use_orjson
    /\ Returned(1) /\ op[1].name = "adumps"
    /\ ret[1].val.k = "bytes"

\* C12: on orjson with use_builtin=True no hook is installed, so the
\* serializer is never called; on orjson with use_builtin=False, and on the
\* standard library whatever use_builtin is, every value of the input that
\* is not a JSON primitive or a dict/list/tuple (datetimes included) is
\* handed to the serializer when the backend meets it.
C12_HookRoutesEveryDomainValue ==
    /\ [](\A t \in Threads :
            (adapter[t].use_orjson /\ adapter[t].use_builtin) =>
              \A j \in 1..Len(stk[t]) : stk[t][j].fn \notin {"ser", "sobj"})
    /\ [][\A t \in Threads :
            (/\ Running(t) /\ Top(t).fn \in {"jenc", "oenc"}
             /\ Top(t).st = "start"
             /\ stk'[t] # stk[t]
             /\ EncoderRule(Top(t).obj) = "default"
             /\ adapter[t].use_orjson => ~adapter[t].use_builtin)
            => \/ ret'[t].st = "exc"
               \/ /\ Len(stk'[t]) = Len(stk[t]) + 1
                  /\ stk'[t][Len(stk'[t])].fn = "ser"
                  /\ stk'[t][Len(stk'[t])].obj = Top(t).obj
         ]_vars

\* Both adapters have ended dumps on the same value: caller 1's was
\* constructed with automatic selection and use_builtin=False, caller 2's
\* with backend="json".
AutoAndBaselineDone ==
    /\ Done(1) /\ Done(2)
    /\ op[1].name = "adumps" /\ op[2].name = "adumps"
    /\ op[1].root = op[2].root
    /\ adapter[1].backend \in {"auto", "None"} /\ ~adapter[1].use_builtin
    /\ adapter[2].backend = "json"

\* C13 as stated: the two adapters end with the same outcome, output equal
\* byte for byte, whichever backend the automatic selection picked.
C13_AutoIdenticalToBaseline ==
    AutoAndBaselineDone => ret[1] = ret[2]

\* C13, amended: the outcomes are identical when the automatic selection
\* picked the standard library (orjson not installed); when it picked
\* orjson, the output is bytes while the baseline's is a str.
C13_AutoIdenticalWhenBaselinePicked ==
    AutoAndBaselineDone =>
      /\ ~mod.HAS_ORJSON => ret[1] = ret[2]
      /\ mod.HAS_ORJSON =>
            /\ Returned(1) => ret[1].val.k = "bytes"
            /\ Returned(2) => ret[2].val.k = "text"

\* Without orjson, the automatic adapter and the baseline adapter have both
\* returned the same str for {"t": datetime, "e": Enum member, "dec":
\* Decimal}.
C13_Witness ==
    /\ AutoAndBaselineDone /\ ~mod.HAS_ORJSON
    /\ op[1].root = Ref(16)
    /\ Returned(1) /\ Returned(2)
    /\ ret[1].val.k = "text" /\ ret[1] = ret[2]

====
